---- MODULE Spec2Model ----
(***************************************************************************)
(* The season-results pipeline of the F1 dashboard (src/new.py):            *)
(*   F1Dashboard.fetch_data / get_season_results  - paginated ingestion,    *)
(*   F1Dashboard.create_sidebar / apply_filters   - filter criteria and     *)
(*                                                  the filter engine.      *)
(*                                                                         *)
(* Python values are modelled as follows.                                   *)
(*   str used for parsing : a sequence of one-character strings;            *)
(*   dict (JSON object)   : a record whose DOMAIN is the set of its keys;   *)
(*   list                 : a sequence;                                     *)
(*   None / a value       : <<>> / <<v>> (an optional value);               *)
(*   DataFrame            : the sequence of its rows, <<>> when empty;      *)
(*   a raised exception   : a record [type, line] (line of src/new.py).     *)
(***************************************************************************)
EXTENDS Integers, Sequences, FiniteSets, TLC

VARIABLES
    pc,          \* where get_season_results is: "loop", "returned", "raised"
    offset,      \* local variable offset
    all_results, \* local variable all_results
    fetch_log,   \* every call of fetch_data so far: its offset and what it returned
    exc,         \* the exception that left get_season_results, NoExc when none
    df,          \* the DataFrame get_season_results returned (df of run)
    run_pc,      \* where run is: "sidebar", "fetch", "filter", "done"
    current_df,  \* st.session_state.current_df, None while the key is not set
    selected_season, \* what create_sidebar returned: the season
    filters,     \* what create_sidebar returned: the filter criteria
    filtered_df  \* filtered_df of run, None while apply_filters has not run

loop_vars == <<pc, offset, all_results, fetch_log, exc>>

run_vars == <<run_pc, current_df, selected_season, filters, filtered_df>>

vars == <<pc, offset, all_results, fetch_log, exc, df,
          run_pc, current_df, selected_season, filters, filtered_df>>

(***************************************************************************)
(* Bounds and program constants.                                           *)
(***************************************************************************)
\* the largest number of pages the declared total of a season spans
MaxPages == 3

\* limit = 100, the page size of get_season_results
limit == 100

(***************************************************************************)
(* Python primitives.                                                      *)
(***************************************************************************)
None == <<>>

Some(v) == <<v>>

NoExc == [type |-> "none", line |-> 0]

Raise(t, l) == [type |-> t, line |-> l]

\* dict.get(key, default)
Get(d, key, default) == IF key \in DOMAIN d THEN d[key] ELSE default

\* the characters int() reads as decimal digits
DecimalDigits == {"0", "1", "2", "3", "4", "5", "6", "7", "8", "9"}

\* the characters of str.isdigit() that are no decimal digits (U+00B2 and the like)
OtherDigits == {"SUPERSCRIPT TWO"}

DigitValue(c) ==
    CASE c = "0" -> 0 [] c = "1" -> 1 [] c = "2" -> 2 [] c = "3" -> 3
      [] c = "4" -> 4 [] c = "5" -> 5 [] c = "6" -> 6 [] c = "7" -> 7
      [] c = "8" -> 8 [] c = "9" -> 9

\* str.isdigit(): non-empty and every character a digit of any kind
isdigit(s) ==
    /\ Len(s) > 0
    /\ \A i \in 1..Len(s) : s[i] \in DecimalDigits \cup OtherDigits

RECURSIVE DecimalValue(_)
DecimalValue(s) ==
    IF Len(s) = 0 THEN 0
    ELSE 10 * DecimalValue(SubSeq(s, 1, Len(s) - 1)) + DigitValue(s[Len(s)])

\* int(s) of a str over the model's alphabet: the value, or ValueError
int(s, line) ==
    IF Len(s) > 0 /\ \A i \in 1..Len(s) : s[i] \in DecimalDigits
    THEN [exc |-> NoExc, value |-> DecimalValue(s)]
    ELSE [exc |-> Raise("ValueError", line), value |-> 0]

\* float(v) of result.get('points', 0) inside try/except (ValueError, TypeError):
\* the value, or 0 when float() raises; the key's default 0 gives 0.0
float_or_zero(result) ==
    IF "points" \notin DOMAIN result THEN 0
    ELSE LET p == int(result["points"], 82)
         IN  IF p.exc = NoExc THEN p.value ELSE 0

\* the decimal text of n, as the API writes totals and rounds
RECURSIVE Str(_)
Str(n) ==
    LET d == CHOOSE c \in DecimalDigits : DigitValue(c) = n % 10
    IN  IF n < 10 THEN <<d>> ELSE Append(Str(n \div 10), d)

DNF == <<"D", "N", "F">>

DSQ == <<"D", "S", "Q">>

(***************************************************************************)
(* The API's answers: what fetch_data can return for one page.             *)
(***************************************************************************)
Driver(given, family) == [givenName |-> given, familyName |-> family]

Constructor(name) == [name |-> name]

\* one entry of a race's Results
Result(position, points, driver, constructor, status) ==
    [position |-> position, points |-> points, Driver |-> driver,
     Constructor |-> constructor, status |-> status]

rX1 == Result(<<"1">>, <<"2", "5">>, Driver("X", "x"), Constructor("P"), "Finished")

rY2 == Result(<<"2">>, <<"1", "8">>, Driver("Y", "y"), Constructor("Q"), "Finished")

rX3 == Result(<<"3">>, <<"1", "5">>, Driver("X", "x"), Constructor("P"), "Finished")

rYdnf == Result(DNF, <<"0">>, Driver("Y", "y"), Constructor("Q"), "Accident")

rZdsq == Result(DSQ, <<"a", "b", "c">>, Driver("Z", "z"), Constructor("P"), "Disqualified")

rW11 == Result(<<"1", "1">>, <<>>, Driver("W", "w"), Constructor("Q"), "+1 Lap")

\* no position, no points and no status key
rVbare == [Driver |-> Driver("V", "v"), Constructor |-> Constructor("P")]

\* position is the empty text
rUempty == Result(<<>>, <<"0">>, Driver("U", "u"), Constructor("Q"), "")

\* position is a superscript two
rTsup == Result(<<"SUPERSCRIPT TWO">>, <<"0">>, Driver("T", "t"), Constructor("Q"), "")

rNoDriver == [position |-> <<"1">>, points |-> <<"2", "5">>,
              Constructor |-> Constructor("P"), status |-> "Finished"]

rNoFamily == [position |-> <<"1">>, points |-> <<"2", "5">>, Driver |-> [givenName |-> "X"],
              Constructor |-> Constructor("P"), status |-> "Finished"]

rNoConstructor == [position |-> <<"1">>, points |-> <<"2", "5">>,
                   Driver |-> Driver("X", "x"), status |-> "Finished"]

Race(name, round, date, results) ==
    [raceName |-> name, round |-> round, date |-> date, Results |-> results]

RaceA(results) == Race("A", <<"1">>, "2023-03-05", results)

RaceB(results) == Race("B", <<"2">>, "2023-03-19", results)

RaceC(results) == Race("C", <<"1", "0">>, "2023-09-24", results)

\* pages whose every field is present and of the documented form
PageAB == <<RaceA(<<rX1, rY2>>), RaceB(<<rX3, rYdnf>>)>>

PageBA == <<RaceB(<<rYdnf, rX3>>), RaceA(<<rVbare, rY2, rUempty, rX1>>)>>

PageC == <<RaceC(<<rX1, rY2, rYdnf, rZdsq, rW11>>)>>

PageNoResults == <<RaceA(<<>>)>>

GoodPages == {PageAB, PageBA, PageC, PageNoResults}

\* pages that miss a nested field, or carry a value of no documented form
BadPages ==
    { <<[round |-> <<"1">>, date |-> "2023-03-05", Results |-> <<rX1>>]>>,
      <<[raceName |-> "A", date |-> "2023-03-05", Results |-> <<rX1>>]>>,
      <<[raceName |-> "A", round |-> <<"1">>, Results |-> <<rX1>>]>>,
      <<[raceName |-> "A", round |-> <<"1">>, date |-> "2023-03-05"]>>,
      <<RaceA(<<rX1, rNoDriver>>)>>,
      <<RaceA(<<rNoFamily>>)>>,
      <<RaceA(<<rX1>>), RaceB(<<rNoConstructor>>)>>,
      <<RaceA(<<rX1, rTsup>>)>>,
      <<Race("A", <<"1">>, "not a date", <<rX1>>)>> }

EmptyPage == <<>>

\* the totals the API declares: at and just past every page boundary, up to a
\* total that spans MaxPages pages
Totals == {k * limit + d : k \in 0..(MaxPages - 1), d \in {0, 1}}

Body(total, races) ==
    [MRData |-> [total |-> Str(total), RaceTable |-> [season |-> "s", Races |-> races]]]

\* the JSON bodies response.json() can give
Bodies ==
    {Body(t, p) : t \in Totals, p \in GoodPages \cup {EmptyPage}}
      \cup {Body(limit + 1, p) : p \in BadPages}
      \cup { [message |-> "Not Found"],
             [MRData |-> [total |-> Str(limit + 1)]],
             [MRData |-> [total |-> Str(limit + 1), RaceTable |-> [season |-> "s"]]],
             [MRData |-> [RaceTable |-> [season |-> "s", Races |-> <<RaceA(<<rX1, rY2>>)>>]]],
             [MRData |-> [total |-> <<"a">>,
                          RaceTable |-> [season |-> "s", Races |-> <<RaceA(<<rX1, rY2>>)>>]]] }

\* fetch_data: the body, or None after a requests.RequestException
fetch_data == {None} \cup {Some(b) : b \in Bodies}

(***************************************************************************)
(* get_season_results: the body of the while loop.                         *)
(***************************************************************************)
\* position = result.get('position', 'DNF');
\* position = int(position) if position.isdigit() else None
parse_position(result) ==
    LET position == Get(result, "position", DNF)
    IN  IF isdigit(position)
        THEN LET v == int(position, 79)
             IN  [exc |-> v.exc, value |-> Some(v.value)]
        ELSE [exc |-> NoExc, value |-> None]

\* the dict appended to all_results for one result of one race
result_row(race_name, round_num, race_date, result) ==
    LET position == parse_position(result)
        points == float_or_zero(result)
    IN  IF position.exc # NoExc THEN [exc |-> position.exc, rows |-> <<>>]
        ELSE IF \/ "Driver" \notin DOMAIN result
                \/ "givenName" \notin DOMAIN result["Driver"]
                \/ "familyName" \notin DOMAIN result["Driver"]
        THEN [exc |-> Raise("KeyError", 90), rows |-> <<>>]
        ELSE IF \/ "Constructor" \notin DOMAIN result
                \/ "name" \notin DOMAIN result["Constructor"]
        THEN [exc |-> Raise("KeyError", 91), rows |-> <<>>]
        ELSE [exc |-> NoExc,
              rows |-> << [round |-> round_num,
                           race |-> race_name,
                           date |-> race_date,
                           driver |-> <<result["Driver"]["givenName"], " ",
                                        result["Driver"]["familyName"]>>,
                           constructor |-> result["Constructor"]["name"],
                           position |-> position.value,
                           points |-> points,
                           status |-> Get(result, "status", "")] >>]

\* for result in race['Results']: ..., from the i-th result on
RECURSIVE results_rows(_, _, _, _, _)
results_rows(race_name, round_num, race_date, results, i) ==
    IF i > Len(results) THEN [exc |-> NoExc, rows |-> <<>>]
    ELSE LET first == result_row(race_name, round_num, race_date, results[i])
         IN  IF first.exc # NoExc THEN first
             ELSE LET rest == results_rows(race_name, round_num, race_date, results, i + 1)
                  IN  IF rest.exc # NoExc THEN rest
                      ELSE [exc |-> NoExc, rows |-> first.rows \o rest.rows]

\* the body of "for race in races" for one race
race_rows(race) ==
    IF "raceName" \notin DOMAIN race THEN [exc |-> Raise("KeyError", 73), rows |-> <<>>]
    ELSE IF "round" \notin DOMAIN race THEN [exc |-> Raise("KeyError", 74), rows |-> <<>>]
    ELSE LET round_num == int(race["round"], 74)
         IN  IF round_num.exc # NoExc THEN [exc |-> round_num.exc, rows |-> <<>>]
             ELSE IF "date" \notin DOMAIN race
             THEN [exc |-> Raise("KeyError", 75), rows |-> <<>>]
             ELSE IF "Results" \notin DOMAIN race
             THEN [exc |-> Raise("KeyError", 77), rows |-> <<>>]
             ELSE results_rows(race["raceName"], round_num.value, race["date"],
                               race["Results"], 1)

\* for race in races: ..., from the i-th race on
RECURSIVE races_rows(_, _)
races_rows(races, i) ==
    IF i > Len(races) THEN [exc |-> NoExc, rows |-> <<>>]
    ELSE LET first == race_rows(races[i])
         IN  IF first.exc # NoExc THEN first
             ELSE LET rest == races_rows(races, i + 1)
                  IN  IF rest.exc # NoExc THEN rest
                      ELSE [exc |-> NoExc, rows |-> first.rows \o rest.rows]

\* total = int(data['MRData']['total'])
parse_total(body) ==
    IF "total" \notin DOMAIN body["MRData"]
    THEN [exc |-> Raise("KeyError", 98), value |-> 0]
    ELSE int(body["MRData"]["total"], 98)

(***************************************************************************)
(* get_season_results: after the loop.                                     *)
(***************************************************************************)
ValidDates == {"2023-03-05", "2023-03-19", "2023-09-24"}

\* pd.to_datetime of one date text
to_datetime(date) ==
    CASE date = "2023-03-05" -> [year |-> 2023, month |-> 3, day |-> 5]
      [] date = "2023-03-19" -> [year |-> 2023, month |-> 3, day |-> 19]
      [] date = "2023-09-24" -> [year |-> 2023, month |-> 9, day |-> 24]

\* key_le with the second sort key forgotten: sort_values(['round'])
key_le_round_only(a, b) == a.round <= b.round

\* the sort key order of sort_values(['round', 'position']): round ascending, then
\* position ascending with NaN (None) after every number
key_le(a, b) ==
    \/ a.round < b.round
    \/ /\ a.round = b.round
       /\ \/ b.position = None
          \/ a.position # None /\ a.position[1] <= b.position[1]

\* row r put after the last row of the sorted rows whose key is not above r's
insert_sorted(rows, r) ==
    LET n == Cardinality({i \in 1..Len(rows) : key_le(rows[i], r)})
    IN  SubSeq(rows, 1, n) \o <<r>> \o SubSeq(rows, n + 1, Len(rows))

\* DataFrame.sort_values(['round', 'position']): a stable sort on the two keys
RECURSIVE sort_values(_)
sort_values(rows) ==
    IF Len(rows) = 0 THEN <<>>
    ELSE insert_sorted(sort_values(SubSeq(rows, 1, Len(rows) - 1)), rows[Len(rows)])

\* lines 102-108: the empty DataFrame, or the rows with their dates converted, sorted
build_frame(rows) ==
    IF Len(rows) = 0 THEN [exc |-> NoExc, df |-> <<>>]
    ELSE IF \E i \in 1..Len(rows) : rows[i].date \notin ValidDates
    THEN [exc |-> Raise("ValueError", 107), df |-> <<>>]
    ELSE [exc |-> NoExc,
          df |-> sort_values([i \in 1..Len(rows) |->
                                [rows[i] EXCEPT !.date = to_datetime(rows[i].date)]])]

(***************************************************************************)
(* get_season_results as a state machine: one step per pass of the loop.   *)
(* The pass that ends the loop also builds the returned DataFrame.         *)
(***************************************************************************)
\* loop_ends with the comparison off by one: if offset > total
loop_ends_strict(new_offset, total) == new_offset > total

\* if offset >= total: break
loop_ends(new_offset, total) == new_offset >= total

\* leave_loop that gives up the season when the last fetch failed
leave_loop_all_or_nothing(rows) ==
    LET failed == fetch_log'[Len(fetch_log')].data = None
        frame == IF failed THEN [exc |-> NoExc, df |-> <<>>] ELSE build_frame(rows)
    IN  /\ all_results' = rows
        /\ df' = frame.df
        /\ exc' = frame.exc
        /\ pc' = IF frame.exc = NoExc THEN "returned" ELSE "raised"

\* leaving the loop with the accumulated rows: lines 102-108
leave_loop(rows) ==
    LET frame == build_frame(rows)
    IN  /\ all_results' = rows
        /\ df' = frame.df
        /\ exc' = frame.exc
        /\ pc' = IF frame.exc = NoExc THEN "returned" ELSE "raised"

\* an exception no handler of get_season_results catches
raise_out(e) ==
    /\ exc' = e
    /\ pc' = "raised"
    /\ UNCHANGED <<all_results, df, offset>>

\* one pass of "while True" (lines 63-100) on what fetch_data returned
loop_pass(data) ==
    /\ pc = "loop"
    /\ fetch_log' = Append(fetch_log, [offset |-> offset, data |-> data])
    /\ UNCHANGED run_vars
    /\ IF \/ data = None
          \/ "MRData" \notin DOMAIN data[1]
          \/ "RaceTable" \notin DOMAIN data[1]["MRData"]
       THEN leave_loop(all_results) /\ offset' = offset
       ELSE IF "Races" \notin DOMAIN data[1]["MRData"]["RaceTable"]
       THEN raise_out(Raise("KeyError", 68))
       ELSE LET races == data[1]["MRData"]["RaceTable"]["Races"]
                page == races_rows(races, 1)
                total == parse_total(data[1])
            IN  IF Len(races) = 0 THEN leave_loop(all_results) /\ offset' = offset
                ELSE IF page.exc # NoExc THEN raise_out(page.exc)
                ELSE IF total.exc # NoExc THEN raise_out(total.exc)
                ELSE /\ offset' = offset + limit
                     /\ IF loop_ends(offset + limit, total.value)
                        THEN leave_loop(all_results \o page.rows)
                        ELSE /\ all_results' = all_results \o page.rows
                             /\ pc' = "loop"
                             /\ UNCHANGED <<exc, df>>

get_season_results == \E data \in fetch_data : loop_pass(data)

(***************************************************************************)
(* create_sidebar: the filter criteria of one run.                         *)
(***************************************************************************)
\* the seasons the selectbox offers
Seasons == {"2022", "2023"}

\* st.slider("Filter by Points Range", min_value=0, max_value=400, value=(0, 400))
MinPoints == 0

MaxPoints == 400

\* st.slider("Filter by Position Range", min_value=1, max_value=20, value=(1, 20))
MinPosition == 1

MaxPosition == 20

\* the slider positions the model lets the user pick
PointsStops == {MinPoints, 18, MaxPoints}

PositionStops == {MinPosition, 2, 3, MaxPosition}

\* a range slider returns a pair (low, high) with low <= high
slider(stops) == {<<lo, hi>> \in stops \X stops : lo <= hi}

\* frame[column].unique(), as the set of the values
unique(frame, column) == {frame[i][column] : i \in 1..Len(frame)}

\* sidebar_filters that keeps an untouched position slider out of the criteria
sidebar_filters_lazy(points_range, position_range, selected_races, selected_constructors) ==
    IF position_range = <<MinPosition, MaxPosition>>
    THEN IF selected_races = None
         THEN [points_range |-> points_range]
         ELSE [points_range |-> points_range,
               selected_races |-> selected_races[1],
               selected_constructors |-> selected_constructors[1]]
    ELSE IF selected_races = None
         THEN [points_range |-> points_range, position_range |-> position_range]
         ELSE [points_range |-> points_range,
               selected_races |-> selected_races[1],
               position_range |-> position_range,
               selected_constructors |-> selected_constructors[1]]

\* the dict create_sidebar fills: both ranges always, the two selections only when
\* 'current_df' is in st.session_state (None: the multiselect was not drawn)
sidebar_filters(points_range, position_range, selected_races, selected_constructors) ==
    IF selected_races = None
    THEN [points_range |-> points_range, position_range |-> position_range]
    ELSE [points_range |-> points_range,
          selected_races |-> selected_races[1],
          position_range |-> position_range,
          selected_constructors |-> selected_constructors[1]]

(***************************************************************************)
(* apply_filters.                                                          *)
(***************************************************************************)
\* between with the upper end left out
between_exclusive(x, low, high) == low <= x /\ x < high

\* Series.between(low, high): inclusive at both ends
between(x, low, high) == low <= x /\ x <= high

\* position_filter that slices the rows by their place in the frame
position_filter_by_row(frame, position_range) ==
    SubSeq(frame, position_range[1],
           IF position_range[2] < Len(frame) THEN position_range[2] ELSE Len(frame))

\* lines 450-454: the rows whose position is present and in the range
position_filter(frame, position_range) ==
    LET position_mask(row) ==
            /\ row.position # None
            /\ between(row.position[1], position_range[1], position_range[2])
    IN  SelectSeq(frame, position_mask)

\* lines 437-460: the rows of filtered_df after the four filter steps
filter_rows(frame, f) ==
    LET in_points(row) == between(row.points, f.points_range[1], f.points_range[2])
        in_races(row) == row.race \in f.selected_races
        in_constructors(row) == row.constructor \in f.selected_constructors
        copied == frame
        by_points ==
            IF "points_range" \in DOMAIN f THEN SelectSeq(copied, in_points) ELSE copied
        by_race ==
            IF "selected_races" \in DOMAIN f /\ f.selected_races # {}
            THEN SelectSeq(by_points, in_races) ELSE by_points
        by_position ==
            IF "position_range" \in DOMAIN f
            THEN position_filter(by_race, f.position_range) ELSE by_race
    IN  IF "selected_constructors" \in DOMAIN f /\ f.selected_constructors # {}
        THEN SelectSeq(by_position, in_constructors) ELSE by_position

\* apply_filters that filters the frame it was given in place
apply_filters_inplace(frame, f) ==
    [df |-> filter_rows(frame, f), filters |-> f, filtered_df |-> filter_rows(frame, f)]

\* apply_filters(df, filters): its two arguments as the call leaves them, and what
\* it returns
apply_filters(frame, f) ==
    [df |-> frame, filters |-> f, filtered_df |-> filter_rows(frame, f)]

(***************************************************************************)
(* run: create_sidebar, get_season_results, apply_filters.                 *)
(***************************************************************************)
\* the pages the API holds for a season
SeasonPages(season) == IF season = "2023" THEN <<PageAB>> ELSE <<PageBA, PageC>>

RECURSIVE pages_rows(_, _)
pages_rows(pages, n) ==
    IF n = 0 THEN <<>> ELSE pages_rows(pages, n - 1) \o races_rows(pages[n], 1).rows

\* what get_season_results(season) can return: the rows of the season's pages up to
\* the first fetch that fails, sorted; the empty DataFrame when the first one fails
returned_frames(season) ==
    {build_frame(pages_rows(SeasonPages(season), n)).df : n \in 0..Len(SeasonPages(season))}

\* selected_season, filters = self.create_sidebar()
create_sidebar ==
    /\ run_pc = "sidebar"
    /\ \E season \in Seasons, points_range \in slider(PointsStops),
          position_range \in slider(PositionStops) :
          /\ selected_season' = season
          /\ IF current_df = None
             THEN filters' = sidebar_filters(points_range, position_range, None, None)
             ELSE \E selected_races \in SUBSET unique(current_df[1], "race"),
                     selected_constructors \in SUBSET unique(current_df[1], "constructor") :
                     filters' = sidebar_filters(points_range, position_range,
                                                Some(selected_races),
                                                Some(selected_constructors))
    /\ run_pc' = "fetch"
    /\ UNCHANGED <<current_df, df, filtered_df, loop_vars>>

\* run_fetch that stores the fetched df in the session state even when it is empty
run_fetch_store_always ==
    /\ run_pc = "fetch"
    /\ \E frame \in returned_frames(selected_season) :
          /\ df' = frame
          /\ current_df' = Some(frame)
          /\ run_pc' = IF Len(frame) > 0 THEN "filter" ELSE "done"
    /\ UNCHANGED <<selected_season, filters, filtered_df, loop_vars>>

\* df = self.get_season_results(selected_season); a non-empty df is stored in
\* st.session_state.current_df, an empty one ends the run
run_fetch ==
    /\ run_pc = "fetch"
    /\ \E frame \in returned_frames(selected_season) :
          /\ df' = frame
          /\ IF Len(frame) > 0
             THEN current_df' = Some(frame) /\ run_pc' = "filter"
             ELSE current_df' = current_df /\ run_pc' = "done"
    /\ UNCHANGED <<selected_season, filters, filtered_df, loop_vars>>

\* filtered_df = self.apply_filters(df, filters); st.session_state.current_df is
\* the object df
run_filter ==
    /\ run_pc = "filter"
    /\ LET call == apply_filters(df, filters)
       IN  /\ df' = call.df
           /\ current_df' = Some(call.df)
           /\ filters' = call.filters
           /\ filtered_df' = Some(call.filtered_df)
    /\ run_pc' = "done"
    /\ UNCHANGED <<selected_season, loop_vars>>

\* the next interaction reruns the script: F1Dashboard() and run() start again with
\* the session state kept and the locals of the last run gone
rerun ==
    /\ run_pc = "done"
    /\ run_pc' = "sidebar"
    /\ selected_season' = ""
    /\ filters' = <<>>
    /\ df' = <<>>
    /\ filtered_df' = None
    /\ UNCHANGED <<current_df, loop_vars>>

(***************************************************************************)
(* The specifications.                                                     *)
(***************************************************************************)
Init ==
    /\ pc = "loop"
    /\ offset = 0
    /\ all_results = <<>>
    /\ fetch_log = <<>>
    /\ exc = NoExc
    /\ df = <<>>
    /\ run_pc = "sidebar"
    /\ current_df = None
    /\ selected_season = ""
    /\ filters = <<>>
    /\ filtered_df = None

\* one call of get_season_results against every answer of the API
Next == get_season_results

Spec == Init /\ [][Next]_vars

\* successive runs of the dashboard on one session state
RunNext == create_sidebar \/ run_fetch \/ run_filter \/ rerun

RunSpec == Init /\ [][RunNext]_vars

(***************************************************************************)
(* Vocabulary of the claims about get_season_results.                      *)
(***************************************************************************)
Ceil(a, b) == (a + b - 1) \div b

Max(a, b) == IF a >= b THEN a ELSE b

IsDecimalText(s) == Len(s) > 0 /\ \A i \in 1..Len(s) : s[i] \in DecimalDigits

AsciiText(s) == \A i \in 1..Len(s) : s[i] \notin OtherDigits

WellFormedResult(r) ==
    /\ {"Driver", "Constructor"} \subseteq DOMAIN r
    /\ {"givenName", "familyName"} \subseteq DOMAIN r["Driver"]
    /\ "name" \in DOMAIN r["Constructor"]
    /\ "position" \in DOMAIN r => AsciiText(r["position"])

WellFormedRace(race) ==
    /\ {"raceName", "round", "date", "Results"} \subseteq DOMAIN race
    /\ IsDecimalText(race["round"])
    /\ race["date"] \in ValidDates
    /\ \A i \in 1..Len(race["Results"]) : WellFormedResult(race["Results"][i])

\* what fetch_data returned is a body with every expected field, declaring total T
WellFormedPage(data, T) ==
    /\ data # None
    /\ "MRData" \in DOMAIN data[1]
    /\ {"total", "RaceTable"} \subseteq DOMAIN data[1]["MRData"]
    /\ data[1]["MRData"]["total"] = Str(T)
    /\ "Races" \in DOMAIN data[1]["MRData"]["RaceTable"]
    /\ \A i \in 1..Len(data[1]["MRData"]["RaceTable"]["Races"]) :
           WellFormedRace(data[1]["MRData"]["RaceTable"]["Races"][i])

RacesOf(data) == data[1]["MRData"]["RaceTable"]["Races"]

\* the page holds at least one result
HasResults(data) ==
    \E i \in 1..Len(RacesOf(data)) : Len(RacesOf(data)[i]["Results"]) > 0

\* every fetch so far answered for one season of total T: no failure, no malformed
\* page, and a page served below the total holds at least one race
SeasonServed(T) ==
    /\ Len(fetch_log) > 0
    /\ \A i \in 1..Len(fetch_log) :
          /\ WellFormedPage(fetch_log[i].data, T)
          /\ fetch_log[i].offset < T => Len(RacesOf(fetch_log[i].data)) > 0

\* the number of rows of d equal to r
Count(d, r) == Cardinality({i \in 1..Len(d) : d[i] = r})

\* the same rows, each as often, in any order
SameRows(d, e) ==
    /\ Len(d) = Len(e)
    /\ \A i \in 1..Len(d) : Count(d, d[i]) = Count(e, d[i])

\* rows with their date converted, order kept
Normalized(rows) ==
    [i \in 1..Len(rows) |-> [rows[i] EXCEPT !.date = to_datetime(rows[i].date)]]

\* the rows of the first n fetched pages, in the order of the pages
RECURSIVE RowsOfPages(_)
RowsOfPages(n) ==
    IF n = 0 THEN <<>>
    ELSE RowsOfPages(n - 1) \o races_rows(RacesOf(fetch_log[n].data), 1).rows

(***************************************************************************)
(* C1: get_season_results never raises: whatever the fetches return, it    *)
(* ends the loop and returns the rows accumulated so far.                  *)
(* Fails: a body with MRData and RaceTable that misses Races, a race or    *)
(* result field, or total raises KeyError out of get_season_results.       *)
(***************************************************************************)
C1_NeverRaises == pc # "raised" /\ exc = NoExc

(***************************************************************************)
(* C2, as stated: a season of total T served without failure is read with  *)
(* exactly ceil(T/limit) calls of fetch_data.  Fails for T = 0, where the  *)
(* loop fetches once before it can read the total.                         *)
(***************************************************************************)
C2_CeilCalls ==
    \A T \in Totals :
        (pc = "returned" /\ SeasonServed(T)) => Len(fetch_log) = Ceil(T, limit)

(***************************************************************************)
(* C2, amended: such a season is read with exactly max(1, ceil(T/limit))   *)
(* calls of fetch_data, and get_season_results returns.                    *)
(***************************************************************************)
C2_CallsAtLeastOne ==
    \A T \in Totals :
        (pc # "loop" /\ SeasonServed(T)) =>
            /\ pc = "returned"
            /\ Len(fetch_log) = Max(1, Ceil(T, limit))

\* a season of more than one page was read to its end
C2_Witness ==
    \E T \in Totals :
        /\ T > limit
        /\ pc = "returned"
        /\ SeasonServed(T)
        /\ Len(fetch_log) = Ceil(T, limit)
        /\ Len(fetch_log) >= 2

(***************************************************************************)
(* C3: when the fetches of pages 1..k-1 (k >= 2) return well-formed pages  *)
(* that hold results and the fetch of page k fails, get_season_results     *)
(* returns a non-empty DataFrame holding exactly the rows of pages 1..k-1. *)
(***************************************************************************)
FailedAfterGoodPages ==
    LET k == Len(fetch_log)
    IN  /\ k >= 2
        /\ fetch_log[k].data = None
        /\ \A i \in 1..(k - 1) :
              /\ \E T \in Totals : WellFormedPage(fetch_log[i].data, T)
              /\ HasResults(fetch_log[i].data)

C3_PartialFailure ==
    FailedAfterGoodPages =>
        /\ pc = "returned"
        /\ exc = NoExc
        /\ Len(df) > 0
        /\ SameRows(df, Normalized(RowsOfPages(Len(fetch_log) - 1)))

\* the fetch of the third page failed after two pages of results
C3_Witness ==
    /\ FailedAfterGoodPages
    /\ Len(fetch_log) = 3
    /\ pc = "returned"
    /\ Len(df) > 0

(***************************************************************************)
(* C9: a non-empty DataFrame returned by get_season_results holds exactly  *)
(* the accumulated rows, ordered by round ascending, then by position      *)
(* ascending, the rows without a position after the others of their round. *)
(***************************************************************************)
OrderedByRoundThenPosition(d) ==
    \A i, j \in 1..Len(d) :
        i < j =>
            /\ d[i].round <= d[j].round
            /\ d[i].round = d[j].round =>
                  /\ d[i].position = None => d[j].position = None
                  /\ (d[i].position # None /\ d[j].position # None) =>
                         d[i].position[1] <= d[j].position[1]

C9_SortedRows ==
    (pc = "returned" /\ Len(df) > 0) =>
        /\ OrderedByRoundThenPosition(df)
        /\ SameRows(df, Normalized(all_results))

\* the sort moved rows: a later round was accumulated first, and a row without a
\* position was accumulated before a row of its round that has one
C9_Witness ==
    /\ pc = "returned"
    /\ Len(df) > 0
    /\ df # Normalized(all_results)
    /\ \E i, j \in 1..Len(all_results) :
          /\ i < j
          /\ all_results[i].round > all_results[j].round
    /\ \E i, j \in 1..Len(all_results) :
          /\ i < j
          /\ all_results[i].round = all_results[j].round
          /\ all_results[i].position = None
          /\ all_results[j].position # None

(***************************************************************************)
(* C10: the position of every result is the integer value of its raw       *)
(* position when that consists of decimal digits only, and absent          *)
(* otherwise; parsing a position never raises.                             *)
(* Fails: str.isdigit() accepts digits int() rejects (a superscript two),  *)
(* and int() then raises ValueError out of get_season_results.             *)
(***************************************************************************)
ExpectedPosition(result) ==
    IF "position" \in DOMAIN result /\ IsDecimalText(result["position"])
    THEN Some(DecimalValue(result["position"]))
    ELSE None

\* the results of every race fetched so far that carries Results
FetchedResults ==
    UNION { UNION { {race["Results"][r] : r \in 1..Len(race["Results"])} :
                    race \in {RacesOf(fetch_log[n].data)[i] :
                                 i \in {m \in 1..Len(RacesOf(fetch_log[n].data)) :
                                          "Results" \in DOMAIN RacesOf(fetch_log[n].data)[m]}} } :
            n \in {m \in 1..Len(fetch_log) :
                     /\ fetch_log[m].data # None
                     /\ "MRData" \in DOMAIN fetch_log[m].data[1]
                     /\ "RaceTable" \in DOMAIN fetch_log[m].data[1]["MRData"]
                     /\ "Races" \in DOMAIN fetch_log[m].data[1]["MRData"]["RaceTable"]} }

C10_PositionParsing ==
    /\ exc # Raise("ValueError", 79)
    /\ \A result \in FetchedResults :
          /\ parse_position(result).exc = NoExc
          /\ parse_position(result).value = ExpectedPosition(result)

(***************************************************************************)
(* Vocabulary of the claims about apply_filters.                           *)
(***************************************************************************)
\* a is b with some rows left out, the others in b's order
RECURSIVE IsSubsequence(_, _)
IsSubsequence(a, b) ==
    IF Len(a) = 0 THEN TRUE
    ELSE IF Len(b) = 0 THEN FALSE
    ELSE IF a[1] = b[1] THEN IsSubsequence(Tail(a), Tail(b))
    ELSE IsSubsequence(a, Tail(b))

\* the criteria of the claim, read off a criteria object
Retained(row, f) ==
    /\ f.points_range[1] <= row.points
    /\ row.points <= f.points_range[2]
    /\ \/ "selected_races" \notin DOMAIN f
       \/ f.selected_races = {}
       \/ row.race \in f.selected_races
    /\ row.position # None
    /\ f.position_range[1] <= row.position[1]
    /\ row.position[1] <= f.position_range[2]
    /\ \/ "selected_constructors" \notin DOMAIN f
       \/ f.selected_constructors = {}
       \/ row.constructor \in f.selected_constructors

\* range values between and beyond the slider stops, for the ranges the claims
\* quantify over
PointsProbes == PointsStops \cup {15, 25}

PositionProbes == PositionStops \cup {10, 11}

\* the criteria f with one of its ranges replaced by any pair, inverted ones included
OneRangeReplaced(f) ==
    {[f EXCEPT !.points_range = r] : r \in PointsProbes \X PointsProbes}
      \cup {[f EXCEPT !.position_range = r] : r \in PositionProbes \X PositionProbes}

\* the values of range r all lie in range q
RangeWithin(r, q) == r[1] > r[2] \/ (q[1] <= r[1] /\ r[2] <= q[2])

\* the criteria that differ from f in one range, narrowed
Narrowed(f) ==
    {g \in OneRangeReplaced(f) :
        /\ RangeWithin(g.points_range, f.points_range)
        /\ RangeWithin(g.position_range, f.position_range)}

(***************************************************************************)
(* C4: apply_filters retains exactly the rows whose points lie in          *)
(* points_range, whose race is selected (or no race is), whose position is *)
(* present and in position_range and whose constructor is selected (or     *)
(* none is); each retained row is a row of the input, unaltered.           *)
(***************************************************************************)
C4_RetainedIff ==
    filtered_df # None =>
        LET kept == {i \in 1..Len(df) : Retained(df[i], filters)}
        IN  /\ Len(filtered_df[1]) = Cardinality(kept)
            /\ \A i \in 1..Len(df) :
                  Count(filtered_df[1], df[i]) = Cardinality({k \in kept : df[k] = df[i]})
            /\ \A j \in 1..Len(filtered_df[1]) :
                  \E i \in kept : df[i] = filtered_df[1][j]

\* the season of races A (X first, Y second) and B (X third, Y out) under
\* position_range (1, 2): exactly (A, X) and (A, Y) are left
C4_Witness ==
    /\ filtered_df # None
    /\ Len(df) = 4
    /\ filters.position_range = <<1, 2>>
    /\ filters.points_range = <<MinPoints, MaxPoints>>
    /\ \E i \in 1..Len(df) : df[i].race = "B" /\ df[i].position = Some(3)
    /\ \E i \in 1..Len(df) : df[i].race = "B" /\ df[i].position = None
    /\ Len(filtered_df[1]) = 2
    /\ filtered_df[1][1].race = "A" /\ filtered_df[1][1].driver = <<"X", " ", "x">>
    /\ filtered_df[1][2].race = "A" /\ filtered_df[1][2].driver = <<"Y", " ", "y">>

C6_PureAndOrdered ==
    [][run_pc = "filter" =>
          /\ df' = df
          /\ filters' = filters
          /\ current_df' = Some(df)
          /\ filtered_df' # None
          /\ IsSubsequence(filtered_df'[1], df)]_vars

\* a call that retained some rows and dropped others, rows on both sides of a
\* dropped one included
C6_Witness ==
    /\ run_pc = "done"
    /\ filtered_df # None
    /\ current_df = Some(df)
    /\ Len(filtered_df[1]) >= 2
    /\ \E i, j, k \in 1..Len(df) :
          /\ i < j /\ j < k
          /\ \E m \in 1..(Len(filtered_df[1]) - 1) :
                filtered_df[1][m] = df[i] /\ filtered_df[1][m + 1] = df[k]
          /\ \A m \in 1..Len(filtered_df[1]) : filtered_df[1][m] # df[j]

(***************************************************************************)
(* C7: filtering the result of apply_filters again under the same criteria *)
(* gives the same result, for the criteria of the run and for the same     *)
(* criteria with either range replaced by any pair, inverted or not.       *)
(***************************************************************************)
C7_Idempotent ==
    filtered_df # None =>
        /\ apply_filters(filtered_df[1], filters).filtered_df = filtered_df[1]
        /\ \A g \in OneRangeReplaced(filters) :
              apply_filters(apply_filters(df, g).filtered_df, g).filtered_df
                  = apply_filters(df, g).filtered_df

\* a call under an empty race selection that retained some rows and dropped others
C7_Witness ==
    /\ filtered_df # None
    /\ "selected_races" \in DOMAIN filters
    /\ filters.selected_races = {}
    /\ Len(filtered_df[1]) > 0
    /\ Len(filtered_df[1]) < Len(df)
    /\ apply_filters(filtered_df[1], filters).filtered_df = filtered_df[1]

(***************************************************************************)
(* C8: narrowing one range of the criteria (points_range or                *)
(* position_range) never adds a row: the result under the narrowed         *)
(* criteria is the result under the criteria with some rows left out.      *)
(***************************************************************************)
C8_Monotone ==
    filtered_df # None =>
        \A g \in Narrowed(filters) :
            /\ IsSubsequence(apply_filters(df, g).filtered_df, filtered_df[1])
            /\ Len(apply_filters(df, g).filtered_df) <= Len(filtered_df[1])

\* narrowing the points range and narrowing the position range each drop some rows
\* of a result and keep others
C8_Witness ==
    /\ filtered_df # None
    /\ \E g \in Narrowed(filters) :
          /\ g.points_range # filters.points_range
          /\ g.points_range[1] <= g.points_range[2]
          /\ Len(apply_filters(df, g).filtered_df) > 0
          /\ Len(apply_filters(df, g).filtered_df) < Len(filtered_df[1])
    /\ \E g \in Narrowed(filters) :
          /\ g.position_range # filters.position_range
          /\ g.position_range[1] <= g.position_range[2]
          /\ Len(apply_filters(df, g).filtered_df) > 0
          /\ Len(apply_filters(df, g).filtered_df) < Len(filtered_df[1])

(***************************************************************************)
(* C11: the loop asks for the offsets 0, limit, 2*limit, ... one after the *)
(* other, and every pass either ends the loop, after which                 *)
(* get_season_results returns, or raises offset by limit; so the call      *)
(* returns.                                                                *)
(* Fails: a pass can also end in an exception (the KeyError of C1, the     *)
(* ValueError of C10), and the call then never returns.                    *)
(***************************************************************************)
C11_SequentialAndReturns ==
    [][pc = "loop" =>
          /\ Len(fetch_log') = Len(fetch_log) + 1
          /\ fetch_log'[Len(fetch_log')].offset = Len(fetch_log) * limit
          /\ \/ pc' = "returned"
             \/ pc' = "loop" /\ offset' = offset + limit]_vars

(***************************************************************************)
(* C11, the part that holds: the n-th call of fetch_data asks for offset   *)
(* (n-1)*limit, offset is what the next call will ask for, and no pass     *)
(* leaves the loop running with offset unchanged.                          *)
(***************************************************************************)
C11_SequentialOffsets ==
    /\ \A n \in 1..Len(fetch_log) : fetch_log[n].offset = (n - 1) * limit
    /\ pc = "loop" => offset = Len(fetch_log) * limit
    /\ Len(fetch_log) <= MaxPages

(***************************************************************************)
(* C11, the part that holds: every pass of the loop ends the call, by a    *)
(* return or by an exception, or raises offset by limit; a pass that goes  *)
(* on has read a total above the new offset, so the passes are at most one *)
(* more than the largest declared total divided by limit.                  *)
(***************************************************************************)
C11_EndsOrAdvances ==
    [][pc = "loop" =>
          \/ pc' \in {"returned", "raised"}
          \/ /\ pc' = "loop"
             /\ offset' = offset + limit
             /\ \E T \in Totals :
                   /\ fetch_log'[Len(fetch_log')].data[1]["MRData"]["total"] = Str(T)
                   /\ offset' < T]_vars

(***************************************************************************)
(* Vocabulary of the claim about successive runs.                          *)
(***************************************************************************)
\* the criteria f as create_sidebar builds them on the session state entry stored:
\* no selection keys without an entry, selections among the entry's values with one
DrawnFrom(f, stored) ==
    IF stored = None
    THEN /\ "selected_races" \notin DOMAIN f
         /\ "selected_constructors" \notin DOMAIN f
    ELSE /\ {"selected_races", "selected_constructors"} \subseteq DOMAIN f
         /\ f.selected_races \subseteq unique(stored[1], "race")
         /\ f.selected_constructors \subseteq unique(stored[1], "constructor")

(***************************************************************************)
(* C12: over successive runs on one session state, create_sidebar builds   *)
(* the criteria before the season is fetched and before current_df is      *)
(* updated: the selections of a run are drawn from the row-set the latest  *)
(* earlier run with a non-empty season stored (absent while none has), the *)
(* rest of the run keeps these criteria, and current_df is written only by *)
(* the fetch step, only with a non-empty fetched row-set.                  *)
(***************************************************************************)
C12_CriteriaFromEarlierStore ==
    [][/\ run_pc = "sidebar" =>
             /\ DrawnFrom(filters', current_df)
             /\ current_df' = current_df
             /\ df' = df
       /\ run_pc \in {"fetch", "filter"} => filters' = filters
       /\ current_df' # current_df =>
             /\ run_pc = "fetch"
             /\ Len(df') > 0
             /\ current_df' = Some(df')
       /\ run_pc = "fetch" /\ Len(df') = 0 => current_df' = current_df
       /\ current_df' # None => Len(current_df'[1]) > 0]_vars

\* a run of season 2023 has ended whose criteria select race C, a race of the season
\* 2022 an earlier run stored, while the session state now holds the rows of 2023
C12_Witness ==
    /\ run_pc = "done"
    /\ filtered_df # None
    /\ selected_season = "2023"
    /\ "selected_races" \in DOMAIN filters
    /\ "C" \in filters.selected_races
    /\ current_df = Some(df)
    /\ "C" \notin unique(df, "race")

\* a run has ended on an empty season before any store: no selection in its criteria
C12_WitnessAbsent ==
    /\ run_pc = "done"
    /\ selected_season \in Seasons
    /\ df = <<>>
    /\ current_df = None
    /\ DrawnFrom(filters, None)

====
